---------------------------- MODULE Spec2Model ----------------------------
(***************************************************************************)
(* Health check of an MCP server in src/electron/main.ts:                  *)
(*   ipcMain.handle('ping-mcp-server')   lines 197-213                     *)
(*   checkCommandAvailability            lines 225-238                     *)
(*   checkMCPServerConnection            lines 241-301                     *)
(*                                                                         *)
(* JavaScript strings are sequences of one-character strings, so that      *)
(* includes, split and parseInt are computed character by character.       *)
(* A JavaScript value is a record [t, v]: its type tag and the characters  *)
(* that ToString gives for it.                                             *)
(***************************************************************************)
EXTENDS Integers, Sequences, FiniteSets, TLC

VARIABLES
    pc,         \* per call: position of the async handler
    server,     \* per call: the server argument of the handler
    availP,     \* per call: promise returned by checkCommandAvailability
    child,      \* per call: the resolver child process started by exec
    probeP,     \* per call: promise returned by checkMCPServerConnection
    sock,       \* per call: the net.Socket of the probe
    connectArg, \* per call: the port handed to socket.connect
    events,     \* per call: socket events delivered to the handlers, in order
    outcome,    \* per call: how the handler's promise settled
    result,     \* per call: the value the handler returned
    file,       \* content of the configuration file, or that it does not exist
    getPc,      \* per get-mcp-config call: position of the async handler
    getOut,     \* per get-mcp-config call: what the handler returned, or that it threw
    savePc,     \* per save-mcp-config call: position of the async handler
    saveArg,    \* per save-mcp-config call: the jsonData argument
    saveOut     \* per save-mcp-config call: what the handler returned, or that it threw

pingVars == <<pc, server, availP, child, probeP, sock, connectArg, events, outcome, result>>

cfgVars == <<file, getPc, getOut, savePc, saveArg, saveOut>>

vars == <<pingVars, cfgVars>>

-----------------------------------------------------------------------------
(* Bounds *)

\* longest args array of a server definition
MaxArgs == 2

\* most socket events delivered to the handlers of one probe
MaxEvents == 2

-----------------------------------------------------------------------------
(* Strings *)

Digits == <<"0", "1", "2", "3", "4", "5", "6", "7", "8", "9">>

IsDigit(ch) == \E i \in 1..Len(Digits) : Digits[i] = ch

DigitVal(ch) == (CHOOSE i \in 1..Len(Digits) : Digits[i] = ch) - 1

IsSpace(ch) == ch = " "

\* does pat occur in s at position i
OccursAt(s, pat, i) ==
    /\ i + Len(pat) - 1 <= Len(s)
    /\ SubSeq(s, i, i + Len(pat) - 1) = pat

\* String.prototype.includes
Includes(s, pat) == \E i \in 1..(Len(s) + 1) : OccursAt(s, pat, i)

\* positions of the separator character in s
SepPositions(s, sep) == {i \in 1..Len(s) : s[i] = sep}

\* mutant of SplitSecond: s.split(sep)[0]
SplitFirst(s, sep) ==
    LET first == CHOOSE i \in SepPositions(s, sep) :
                     \A j \in SepPositions(s, sep) : i <= j
    IN  SubSeq(s, 1, first - 1)

\* s.split(sep)[1] for a one-character separator that occurs in s: the
\* characters between the first separator and the second one (or the end)
SplitSecond(s, sep) ==
    LET first == CHOOSE i \in SepPositions(s, sep) :
                     \A j \in SepPositions(s, sep) : i <= j
        later == {j \in SepPositions(s, sep) : j > first}
        stop  == IF later = {} THEN Len(s) + 1
                 ELSE CHOOSE j \in later : \A k \in later : j <= k
    IN  SubSeq(s, first + 1, stop - 1)

-----------------------------------------------------------------------------
(* Numbers: a JavaScript number is NaN or an integer *)

NaN == [nan |-> TRUE, n |-> 0]

Num(k) == [nan |-> FALSE, n |-> k]

\* !port
Falsy(num) == num.nan \/ num.n = 0

\* isNaN(port)
IsNaN(num) == num.nan

RECURSIVE SkipSpaces(_)
SkipSpaces(s) ==
    IF s # <<>> /\ IsSpace(s[1]) THEN SkipSpaces(Tail(s)) ELSE s

RECURSIVE DigitPrefix(_)
DigitPrefix(s) ==
    IF s # <<>> /\ IsDigit(s[1]) THEN <<s[1]>> \o DigitPrefix(Tail(s)) ELSE <<>>

RECURSIVE DigitsValue(_)
DigitsValue(ds) ==
    IF ds = <<>> THEN 0
    ELSE 10 * DigitsValue(SubSeq(ds, 1, Len(ds) - 1)) + DigitVal(ds[Len(ds)])

\* parseInt(s, 10) on the characters of ToString(s)
ParseInt(s) ==
    LET t      == SkipSpaces(s)
        signed == t # <<>> /\ t[1] \in {"-", "+"}
        neg    == t # <<>> /\ t[1] = "-"
        body   == IF signed THEN Tail(t) ELSE t
        ds     == DigitPrefix(body)
    IN  IF ds = <<>> THEN NaN
        ELSE Num(IF neg THEN 0 - DigitsValue(ds) ELSE DigitsValue(ds))

-----------------------------------------------------------------------------
(* JavaScript values and server definitions *)

Undefined == [t |-> "undefined", v |-> <<"u", "n", "d", "e", "f", "i", "n", "e", "d">>]

Str(s) == [t |-> "string", v |-> s]

\* a number value, held as the characters ToString gives for it
NumVal(s) == [t |-> "number", v |-> s]

\* ToBoolean of a value
Truthy(val) ==
    CASE val.t = "undefined" -> FALSE
      [] val.t = "string"    -> val.v # <<>>
      [] val.t = "number"    -> ~Falsy(ParseInt(val.v))

NoArgs == [isArray |-> FALSE, elems |-> <<>>]

Args(elems) == [isArray |-> TRUE, elems |-> elems]

NoEnv == [t |-> "undefined", MCP_PORT |-> Undefined]

Env(port) == [t |-> "object", MCP_PORT |-> port]

\* the handler called without a server argument
MissingServer == [t |-> "undefined", command |-> Undefined, args |-> NoArgs, env |-> NoEnv]

ServerDef(command, args, env) ==
    [t |-> "object", command |-> command, args |-> args, env |-> env]

PortEq == <<"-", "-", "p", "o", "r", "t", "=">>

PortFlag == <<"-", "-", "p", "o", "r", "t">>

-----------------------------------------------------------------------------
(* Port inference, main.ts 248-273 *)

DefaultPort == 8080

\* largest port socket.connect accepts; any other integer makes it throw
MaxPort == 65535

\* lines 248-253
PortFromEnv(s) ==
    IF s.env.t = "object" /\ Truthy(s.env.MCP_PORT)
    THEN ParseInt(s.env.MCP_PORT.v)
    ELSE Num(0)

\* mutant of ScanArgs: no test for a successor, and reading past the end
\* of args faults
RECURSIVE ScanArgsUnguarded(_, _, _)
ScanArgsUnguarded(elems, i, port) ==
    IF i > Len(elems) THEN [fault |-> FALSE, port |-> port]
    ELSE IF elems[i].t # "string" THEN [fault |-> TRUE, port |-> port]
    ELSE IF Includes(elems[i].v, PortEq)
         THEN [fault |-> FALSE, port |-> ParseInt(SplitSecond(elems[i].v, "="))]
    ELSE IF elems[i].v = PortFlag
         THEN IF i < Len(elems)
              THEN [fault |-> FALSE, port |-> ParseInt(elems[i + 1].v)]
              ELSE [fault |-> TRUE, port |-> port]
    ELSE ScanArgsUnguarded(elems, i + 1, port)

\* mutant of ScanArgs: no break, a later specifier replaces an earlier one
\* that gave no port
RECURSIVE ScanArgsNoBreak(_, _, _)
ScanArgsNoBreak(elems, i, port) ==
    IF i > Len(elems) \/ ~Falsy(port) THEN [fault |-> FALSE, port |-> port]
    ELSE IF elems[i].t # "string" THEN [fault |-> TRUE, port |-> port]
    ELSE IF Includes(elems[i].v, PortEq)
         THEN ScanArgsNoBreak(elems, i + 1, ParseInt(SplitSecond(elems[i].v, "=")))
    ELSE IF elems[i].v = PortFlag /\ i < Len(elems)
         THEN ScanArgsNoBreak(elems, i + 1, ParseInt(elems[i + 1].v))
    ELSE ScanArgsNoBreak(elems, i + 1, port)

\* lines 257-267: the loop from index i (1-based) with the current port;
\* fault: args[i].includes is not a function
RECURSIVE ScanArgs(_, _, _)
ScanArgs(elems, i, port) ==
    IF i > Len(elems) THEN [fault |-> FALSE, port |-> port]
    ELSE IF elems[i].t # "string" THEN [fault |-> TRUE, port |-> port]
    ELSE IF Includes(elems[i].v, PortEq)
         THEN [fault |-> FALSE, port |-> ParseInt(SplitSecond(elems[i].v, "="))]
    ELSE IF elems[i].v = PortFlag /\ i < Len(elems)
         THEN [fault |-> FALSE, port |-> ParseInt(elems[i + 1].v)]
    ELSE ScanArgs(elems, i + 1, port)

\* mutant of PortFromArgs: args are scanned whatever the environment gave
PortFromArgsFirst(s, port) ==
    IF s.args.isArray
    THEN ScanArgs(s.args.elems, 1, port)
    ELSE [fault |-> FALSE, port |-> port]

\* lines 256-268
PortFromArgs(s, port) ==
    IF Falsy(port) /\ s.args.isArray
    THEN ScanArgs(s.args.elems, 1, port)
    ELSE [fault |-> FALSE, port |-> port]

\* lines 271-273
PortOrDefault(port) ==
    IF Falsy(port) \/ IsNaN(port) THEN Num(DefaultPort) ELSE port

\* lines 248-273: fault, or the port handed to socket.connect
InferPort(s) ==
    LET scan == PortFromArgs(s, PortFromEnv(s))
    IN  [fault |-> scan.fault, port |-> PortOrDefault(scan.port)]

\* socket.connect(port, 'localhost') throws synchronously on a port out of range
ConnectThrows(port) == port.n < 0 \/ port.n > MaxPort

-----------------------------------------------------------------------------
(* Inputs *)

Calls == {"c1", "c2"}

\* a command the shell can be asked about, and one holding a NUL character,
\* which child_process.exec refuses before it spawns anything
Commands == {Str(<<"n", "p", "x">>), Str(<<"n", "NUL", "x">>)}

\* elements of args: --port=81, --port=x, --port=0, --port, 82, -v,
\* x=--port=7 and the number 83
ArgTokens ==
    { Str(PortEq \o <<"8", "1">>),
      Str(PortEq \o <<"x">>),
      Str(PortEq \o <<"0">>),
      Str(PortFlag),
      Str(<<"8", "2">>),
      Str(<<"-", "v">>),
      Str(<<"x", "=">> \o PortEq \o <<"7">>),
      NumVal(<<"8", "3">>) }

ArgLists == UNION {[1..n -> ArgTokens] : n \in 0..MaxArgs}

ArgValues == {NoArgs} \cup {Args(a) : a \in ArgLists}

\* env absent, env without MCP_PORT, and MCP_PORT "9999", "0", "abc",
\* "70000", "-5", "12ab", " 77" and ""
EnvValues ==
    { NoEnv,
      Env(Undefined),
      Env(Str(<<"9", "9", "9", "9">>)),
      Env(Str(<<"0">>)),
      Env(Str(<<"a", "b", "c">>)),
      Env(Str(<<"7", "0", "0", "0", "0">>)),
      Env(Str(<<"-", "5">>)),
      Env(Str(<<"1", "2", "a", "b">>)),
      Env(Str(<<" ", "7", "7">>)),
      Env(Str(<<>>)) }

\* every server value of the bounded input space: no server, every args
\* and env under a command exec accepts, and a command exec may refuse
ServerDefs ==
    {MissingServer} \cup
    {ServerDef(Str(<<"n", "p", "x">>), a, e) : a \in ArgValues, e \in EnvValues} \cup
    {ServerDef(c, NoArgs, NoEnv) : c \in Commands}

\* the server values two concurrent calls are run on: one of each way the
\* handler can go (no server, port from env, port from args, default port,
\* port out of range, args that fault, command exec refuses)
PingInputs ==
    { MissingServer,
      ServerDef(Str(<<"n", "p", "x">>), NoArgs, Env(Str(<<"9", "9", "9", "9">>))),
      ServerDef(Str(<<"n", "p", "x">>), Args(<<Str(PortFlag), Str(<<"8", "2">>)>>), NoEnv),
      ServerDef(Str(<<"n", "p", "x">>), Args(<<>>), Env(Undefined)),
      ServerDef(Str(<<"n", "p", "x">>), NoArgs, Env(Str(<<"7", "0", "0", "0", "0">>))),
      ServerDef(Str(<<"n", "p", "x">>), Args(<<NumVal(<<"8", "3">>)>>), NoEnv),
      ServerDef(Str(<<"n", "NUL", "x">>), NoArgs, NoEnv) }

-----------------------------------------------------------------------------
(* Promises *)

NoPromise == [state |-> "none", value |-> FALSE, reason |-> ""]

Pending == [state |-> "pending", value |-> FALSE, reason |-> ""]

\* mutant of Resolve: the last call of resolve decides
ResolveOverwrite(p, v) == [state |-> "fulfilled", value |-> v, reason |-> ""]

\* resolve(v): settles a pending promise, does nothing to a settled one
Resolve(p, v) ==
    IF p.state = "pending"
    THEN [state |-> "fulfilled", value |-> v, reason |-> ""]
    ELSE p

\* a throw inside the executor of new Promise rejects the promise
Reject(p, msg) ==
    IF p.state = "pending"
    THEN [state |-> "rejected", value |-> FALSE, reason |-> msg]
    ELSE p

Settled(p) == p.state \in {"fulfilled", "rejected"}

-----------------------------------------------------------------------------
(* checkCommandAvailability, main.ts 225-238 *)

ExecRefusedMessage == "The argument 'file' must be a string without null bytes"

HasNul(command) == \E i \in 1..Len(command.v) : command.v[i] = "NUL"

\* exec(`${cmd} ${command}`, callback), line 230: the call either spawns the
\* shell, or throws before spawning. A command with a NUL character is
\* refused by runtimes that validate the command line and spawned by the others.
ExecOutcomes(command) ==
    IF HasNul(command) THEN {"throws", "spawned"} ELSE {"spawned"}

\* how the resolver process can end: exit code zero, a non-zero exit code,
\* or the shell could not be run
Exits == {"exit0", "exit1", "spawnError"}

\* the error argument exec gives its callback
ExecError(exit) == exit # "exit0"

\* lines 231-235
CallbackValue(error) == IF error THEN FALSE ELSE TRUE

\* lines 226-237, up to the return of the promise
StartAvailability(o) ==
    IF o = "throws"
    THEN [promise |-> Reject(Pending, ExecRefusedMessage), child |-> "none"]
    ELSE [promise |-> Pending, child |-> "running"]

-----------------------------------------------------------------------------
(* checkMCPServerConnection, main.ts 241-301 *)

NoPort == NaN

\* mutant of ProbeCatch: no try/catch around the executor's body
ProbeNoCatch(p) == Reject(p, "socket.connect threw")

\* lines 296-299
ProbeCatch(p) == Resolve(p, FALSE)

\* lines 245-300, the executor: the state it leaves when it returns.
\* sock "created": the socket exists with its timeout armed and its handlers
\* registered, and connect threw; "connecting": connect was started.
StartProbe(s) ==
    LET inf == InferPort(s)
    IN  IF s.t # "object" \/ inf.fault
        THEN [promise |-> ProbeCatch(Pending), sock |-> "none", connectArg |-> NoPort]
        ELSE IF ConnectThrows(inf.port)
        THEN [promise |-> ProbeCatch(Pending), sock |-> "created", connectArg |-> inf.port]
        ELSE [promise |-> Pending, sock |-> "connecting", connectArg |-> inf.port]

Range(f) == {f[i] : i \in DOMAIN f}

\* an event can reach its handler: the handlers are registered, and connect
\* and error need a connection that was started
CanDeliver(c, ev) ==
    /\ sock[c] # "none"
    /\ Len(events[c]) < MaxEvents
    /\ ev \notin Range(events[c])
    /\ ev \in {"connect", "error"} => ~ConnectThrows(connectArg[c])

\* the body shared by the three handlers: socket.destroy(); resolve(v)
Handle(c, ev, v) ==
    /\ CanDeliver(c, ev)
    /\ sock' = [sock EXCEPT ![c] = "destroyed"]
    /\ probeP' = [probeP EXCEPT ![c] = Resolve(probeP[c], v)]
    /\ events' = [events EXCEPT ![c] = Append(events[c], ev)]
    /\ UNCHANGED <<pc, server, availP, child, connectArg, outcome, result>>
    /\ UNCHANGED cfgVars

\* lines 280-283
OnConnect(c) == Handle(c, "connect", TRUE)

\* mutant of OnTimeout: the handler destroys the socket and resolves nothing
OnTimeoutNoResolve(c) ==
    /\ CanDeliver(c, "timeout")
    /\ sock' = [sock EXCEPT ![c] = "destroyed"]
    /\ events' = [events EXCEPT ![c] = Append(events[c], "timeout")]
    /\ UNCHANGED <<pc, server, availP, child, probeP, connectArg, outcome, result>>
    /\ UNCHANGED cfgVars

\* lines 285-288
OnTimeout(c) == Handle(c, "timeout", FALSE)

\* lines 290-293
OnError(c) == Handle(c, "error", FALSE)

-----------------------------------------------------------------------------
(* ipcMain.handle('ping-mcp-server'), main.ts 197-213 *)

NoServerMessage == "Cannot read properties of undefined (reading 'command')"

NoResult == [success |-> FALSE, hasError |-> FALSE, error |-> ""]

\* line 203
CommandNotAvailable ==
    [success |-> FALSE, hasError |-> TRUE, error |-> "Command not available"]

\* mutant of PingResult: every unsuccessful probe is given an error
PingResultWithError(pingSuccess) ==
    [success |-> pingSuccess, hasError |-> ~pingSuccess,
     error |-> IF pingSuccess THEN "" ELSE "Connection failed"]

\* mutant of PingResult: the probe's result is dropped
PingAlwaysTrue(pingSuccess) == [success |-> TRUE, hasError |-> FALSE, error |-> ""]

\* line 208
PingResult(pingSuccess) == [success |-> pingSuccess, hasError |-> FALSE, error |-> ""]

\* mutant of PingCatch: the fault is thrown again, as the other handlers do
PingRethrow(msg) == [outcome |-> "threw", result |-> NoResult]

\* lines 209-212
PingCatch(msg) ==
    [outcome |-> "returned",
     result  |-> [success |-> FALSE, hasError |-> TRUE, error |-> msg]]

\* mutant of CommandAvailable: the early return is missing
AlwaysAvailable(isCommandAvailable) == TRUE

\* line 201: the handler goes on to the probe
CommandAvailable(isCommandAvailable) == isCommandAvailable

\* the handler settles: it returns r.result, or throws
Finish(c, r) ==
    /\ pc' = [pc EXCEPT ![c] = "done"]
    /\ outcome' = [outcome EXCEPT ![c] = r.outcome]
    /\ result' = [result EXCEPT ![c] = r.result]

Return(value) == [outcome |-> "returned", result |-> value]

\* lines 198-200: the call, up to the first await
Invoke(c, s) ==
    /\ pc[c] = "idle"
    /\ server' = [server EXCEPT ![c] = s]
    /\ IF s.t # "object"
       THEN /\ Finish(c, PingCatch(NoServerMessage))
            /\ UNCHANGED <<availP, child>>
       ELSE \E o \in ExecOutcomes(s.command) :
            /\ availP' = [availP EXCEPT ![c] = StartAvailability(o).promise]
            /\ child' = [child EXCEPT ![c] = StartAvailability(o).child]
            /\ pc' = [pc EXCEPT ![c] = "awaitAvail"]
            /\ UNCHANGED <<outcome, result>>
    /\ UNCHANGED <<probeP, sock, connectArg, events>>
    /\ UNCHANGED cfgVars

\* lines 230-236: the resolver process ends and exec calls back
ExecCallback(c, exit) ==
    /\ child[c] = "running"
    /\ child' = [child EXCEPT ![c] = exit]
    /\ availP' = [availP EXCEPT ![c] = Resolve(availP[c], CallbackValue(ExecError(exit)))]
    /\ UNCHANGED <<pc, server, probeP, sock, connectArg, events, outcome, result>>
    /\ UNCHANGED cfgVars

\* lines 200-207: the handler resumes after the availability check
AfterAvailability(c) ==
    /\ pc[c] = "awaitAvail"
    /\ Settled(availP[c])
    /\ IF availP[c].state = "rejected"
       THEN /\ Finish(c, PingCatch(availP[c].reason))
            /\ UNCHANGED <<probeP, sock, connectArg>>
       ELSE IF ~CommandAvailable(availP[c].value)
       THEN /\ Finish(c, Return(CommandNotAvailable))
            /\ UNCHANGED <<probeP, sock, connectArg>>
       ELSE /\ probeP' = [probeP EXCEPT ![c] = StartProbe(server[c]).promise]
            /\ sock' = [sock EXCEPT ![c] = StartProbe(server[c]).sock]
            /\ connectArg' = [connectArg EXCEPT ![c] = StartProbe(server[c]).connectArg]
            /\ pc' = [pc EXCEPT ![c] = "awaitProbe"]
            /\ UNCHANGED <<outcome, result>>
    /\ UNCHANGED <<server, availP, child, events>>
    /\ UNCHANGED cfgVars

\* mutant of AfterProbe: the probe's result is kept in one module-level
\* variable, so a call may return what another call's probe resolved to
AfterProbeShared(c) ==
    /\ pc[c] = "awaitProbe"
    /\ Settled(probeP[c])
    /\ \E d \in Calls :
           /\ probeP[d].state = "fulfilled"
           /\ Finish(c, Return(PingResult(probeP[d].value)))
    /\ UNCHANGED <<server, availP, child, probeP, sock, connectArg, events>>
    /\ UNCHANGED cfgVars

\* lines 207-208: the handler resumes after the probe
AfterProbe(c) ==
    /\ pc[c] = "awaitProbe"
    /\ Settled(probeP[c])
    /\ IF probeP[c].state = "rejected"
       THEN Finish(c, PingCatch(probeP[c].reason))
       ELSE Finish(c, Return(PingResult(probeP[c].value)))
    /\ UNCHANGED <<server, availP, child, probeP, sock, connectArg, events>>
    /\ UNCHANGED cfgVars

-----------------------------------------------------------------------------
(* ipcMain.handle('get-mcp-config') and ('save-mcp-config'), main.ts 143-175 *)

Gets == {"g1", "g2"}

Saves == {"s1", "s2"}

\* fs.existsSync(configPath) is false
Absent == "(no file)"

\* JSON.stringify(defaultConfig, null, 2), line 152
DefaultWritten == "{\n  \"mcpServers\": {}\n}"

\* JSON.stringify(defaultConfig), line 153
DefaultReturned == "{\"mcpServers\":{}}"

\* jsonData arguments of save-mcp-config, and a file left by an earlier run
JsonData == {"{\"mcpServers\":{\"a\":{}}}", "{\"mcpServers\":{\"b\":{}}}"}

OldData == "{\"mcpServers\":{\"old\":{}}}"

NotSettled == [kind |-> "none", value |-> ""]

Returned(value) == [kind |-> "returned", value |-> value]

\* lines 161 and 173: throw new Error('Failed to ... configuration')
Threw(msg) == [kind |-> "threw", value |-> msg]

\* lines 144-152 and 157: up to the first await. The file is tested now; the
\* write or the read that is started lands later.
GetBegin(g) ==
    /\ getPc[g] = "idle"
    /\ getPc' = [getPc EXCEPT ![g] = IF file = Absent THEN "writing" ELSE "reading"]
    /\ UNCHANGED <<file, getOut, savePc, saveArg, saveOut>>
    /\ UNCHANGED pingVars

\* lines 152-153 and 159-162: writeFile of the default lands, or fails
GetWritten(g, ok) ==
    /\ getPc[g] = "writing"
    /\ getPc' = [getPc EXCEPT ![g] = "done"]
    /\ file' = IF ok THEN DefaultWritten ELSE file
    /\ getOut' = [getOut EXCEPT ![g] =
                      IF ok THEN Returned(DefaultReturned)
                      ELSE Threw("Failed to read configuration")]
    /\ UNCHANGED <<savePc, saveArg, saveOut>>
    /\ UNCHANGED pingVars

\* lines 157-162: readFile gives the file's content, or fails
GetRead(g, ok) ==
    /\ getPc[g] = "reading"
    /\ getPc' = [getPc EXCEPT ![g] = "done"]
    /\ getOut' = [getOut EXCEPT ![g] =
                      IF ok THEN Returned(file)
                      ELSE Threw("Failed to read configuration")]
    /\ UNCHANGED <<file, savePc, saveArg, saveOut>>
    /\ UNCHANGED pingVars

\* lines 166-169: up to the await
SaveBegin(s, jsonData) ==
    /\ savePc[s] = "idle"
    /\ savePc' = [savePc EXCEPT ![s] = "writing"]
    /\ saveArg' = [saveArg EXCEPT ![s] = jsonData]
    /\ UNCHANGED <<file, getPc, getOut, saveOut>>
    /\ UNCHANGED pingVars

\* lines 169-174: writeFile of jsonData lands, or fails
SaveWritten(s, ok) ==
    /\ savePc[s] = "writing"
    /\ savePc' = [savePc EXCEPT ![s] = "done"]
    /\ file' = IF ok THEN saveArg[s] ELSE file
    /\ saveOut' = [saveOut EXCEPT ![s] =
                       IF ok THEN Returned("true")
                       ELSE Threw("Failed to save configuration")]
    /\ UNCHANGED <<getPc, getOut, saveArg>>
    /\ UNCHANGED pingVars

-----------------------------------------------------------------------------
(* Specifications *)

\* no configuration call was made yet
ConfigIdle ==
    /\ getPc = [g \in Gets |-> "idle"]
    /\ getOut = [g \in Gets |-> NotSettled]
    /\ savePc = [s \in Saves |-> "idle"]
    /\ saveArg = [s \in Saves |-> ""]
    /\ saveOut = [s \in Saves |-> NotSettled]

\* no ping call was made yet
PingIdle ==
    /\ pc = [c \in Calls |-> "idle"]
    /\ server = [c \in Calls |-> MissingServer]
    /\ availP = [c \in Calls |-> NoPromise]
    /\ child = [c \in Calls |-> "none"]
    /\ probeP = [c \in Calls |-> NoPromise]
    /\ sock = [c \in Calls |-> "none"]
    /\ connectArg = [c \in Calls |-> NoPort]
    /\ events = [c \in Calls |-> <<>>]
    /\ outcome = [c \in Calls |-> "none"]
    /\ result = [c \in Calls |-> NoResult]

Init ==
    /\ PingIdle
    /\ ConfigIdle
    /\ file = Absent

\* the steps of one call after it was invoked
Step(c) ==
    \/ \E exit \in Exits : ExecCallback(c, exit)
    \/ AfterAvailability(c)
    \/ OnConnect(c)
    \/ OnTimeout(c)
    \/ OnError(c)
    \/ AfterProbe(c)

\* two concurrent calls of the handler
Next ==
    \E c \in Calls :
        \/ \E s \in PingInputs : Invoke(c, s)
        \/ Step(c)

Spec == Init /\ [][Next]_vars

\* one call of the handler, on every server value of the input space
NextDefs ==
    \/ \E s \in ServerDefs : Invoke("c1", s)
    \/ Step("c1")

SpecDefs == Init /\ [][NextDefs]_vars

\* the configuration file does not exist, or an earlier run left one
InitConfig ==
    /\ PingIdle
    /\ ConfigIdle
    /\ file \in {Absent, OldData}

\* get-mcp-config and save-mcp-config calls, interleaved at their awaits
NextConfig ==
    \/ \E g \in Gets : GetBegin(g)
    \/ \E g \in Gets, ok \in BOOLEAN : GetWritten(g, ok)
    \/ \E g \in Gets, ok \in BOOLEAN : GetRead(g, ok)
    \/ \E s \in Saves, jsonData \in JsonData : SaveBegin(s, jsonData)
    \/ \E s \in Saves, ok \in BOOLEAN : SaveWritten(s, ok)

SpecConfig == InitConfig /\ [][NextConfig]_vars

\* what the event loop is bound to do for call c: the resolver process ends
\* and exec calls back, the socket's 1000 ms timer (line 278) fires while no
\* other event has destroyed the socket, and a handler waiting on a settled
\* promise resumes. Connect and error are up to the network.
Fairness(c) ==
    /\ WF_vars(\E exit \in Exits : ExecCallback(c, exit))
    /\ WF_vars(AfterAvailability(c))
    /\ WF_vars(OnTimeout(c))
    /\ WF_vars(AfterProbe(c))

\* the call that is followed to its end
OneCall == "c1"

\* one call of the handler, on the server values of PingInputs
NextOne ==
    \/ \E s \in PingInputs : Invoke(OneCall, s)
    \/ Step(OneCall)

FairSpec == Init /\ [][NextOne]_vars /\ Fairness(OneCall)

-----------------------------------------------------------------------------
(* Properties *)

AvailableIs(c, b) == availP[c].state = "fulfilled" /\ availP[c].value = b

ProbeEntered(c) == probeP[c].state # "none"

\* {success: false, error: "Command not available"}
Unavailable == [success |-> FALSE, hasError |-> TRUE, error |-> "Command not available"]

\* {success: b}, with no error field
Plain(b) == [success |-> b, hasError |-> FALSE, error |-> ""]

\* C1: when the availability check of a call resolves to false, the handler
\* returns {success: false, error: "Command not available"} and the call
\* never enters the probe (no promise, no socket, no socket event); a probe
\* is only ever entered by a call whose availability check resolved to true.
C1_UnavailableNeverProbes ==
    \A c \in Calls :
        /\ AvailableIs(c, FALSE) =>
               /\ ~ProbeEntered(c)
               /\ sock[c] = "none"
               /\ events[c] = <<>>
               /\ pc[c] \in {"awaitAvail", "done"}
        /\ (AvailableIs(c, FALSE) /\ pc[c] = "done") =>
               /\ outcome[c] = "returned"
               /\ result[c] = Unavailable
        /\ (ProbeEntered(c) \/ sock[c] # "none") => AvailableIs(c, TRUE)

C1_Witness ==
    \E c \in Calls :
        /\ AvailableIs(c, FALSE)
        /\ child[c] = "exit1"
        /\ pc[c] = "done"
        /\ result[c] = Unavailable

\* the fault a call met, if any: no server argument, or a rejected promise
Faulted(c) ==
    \/ server[c].t # "object"
    \/ availP[c].state = "rejected"
    \/ probeP[c].state = "rejected"

FaultMessage(c) ==
    IF server[c].t # "object" THEN NoServerMessage
    ELSE IF availP[c].state = "rejected" THEN availP[c].reason
    ELSE probeP[c].reason

FaultResult(msg) == [success |-> FALSE, hasError |-> TRUE, error |-> msg]

\* C2: no call of the handler ends by throwing; a call that met a fault (no
\* server argument, a rejected availability check or probe) returns
\* {success: false, error: <message of the fault>}.
C2_NoExceptionEscapes ==
    \A c \in Calls :
        /\ outcome[c] # "threw"
        /\ pc[c] = "done" => outcome[c] = "returned"
        /\ (pc[c] = "done" /\ Faulted(c)) => result[c] = FaultResult(FaultMessage(c))

C2_Witness ==
    \E c \in Calls, d \in Calls :
        /\ pc[c] = "done" /\ server[c].t # "object"
        /\ result[c] = FaultResult(NoServerMessage)
        /\ pc[d] = "done" /\ availP[d].state = "rejected"
        /\ result[d] = FaultResult(ExecRefusedMessage)

\* the probe of call c started a connection: socket.connect did not throw
ConnectStarted(c) == sock[c] # "none" /\ ~ConnectThrows(connectArg[c])

\* C3: in a probe whose connection was started, the promise is pending until
\* the first socket event and from then on holds what that first event
\* gives (connect: true; timeout, error: false), whatever events follow.
C3_FirstEventDecides ==
    \A c \in Calls :
        ConnectStarted(c) =>
            IF events[c] = <<>>
            THEN probeP[c] = Pending
            ELSE /\ probeP[c].state = "fulfilled"
                 /\ probeP[c].value = (events[c][1] = "connect")

C3_Witness ==
    \E c \in Calls :
        /\ events[c] = <<"connect", "error">>
        /\ probeP[c].state = "fulfilled"
        /\ probeP[c].value = TRUE

\* C4: whenever the promise of a probe is settled, the socket the probe
\* created has been destroyed.
C4_SocketDestroyedOnEveryPath ==
    \A c \in Calls :
        (Settled(probeP[c]) /\ sock[c] # "none") => sock[c] = "destroyed"

\* C5 as stated: a completed call returned one of the three results
\* "Command not available", {success: false}, {success: true}.
C5_ThreeOutcomes ==
    \A c \in Calls :
        pc[c] = "done" =>
            /\ outcome[c] = "returned"
            /\ result[c] \in {Unavailable, Plain(FALSE), Plain(TRUE)}

FaultMessages == {NoServerMessage, ExecRefusedMessage}

\* C5 as amended: a completed call returned exactly one of four results,
\* fixed by what happened in it: "Command not available" when the
\* availability check gave false; {success: false} or {success: true}, with
\* no error, when it gave true; {success: false, error: <fault message>}
\* when the call met a fault.
C5_FourOutcomes ==
    \A c \in Calls :
        pc[c] = "done" =>
            /\ outcome[c] = "returned"
            /\ result[c] \in {Unavailable, Plain(FALSE), Plain(TRUE)}
                             \cup {FaultResult(m) : m \in FaultMessages}
            /\ (result[c] = Unavailable) <=> AvailableIs(c, FALSE)
            /\ (result[c] \in {Plain(FALSE), Plain(TRUE)}) <=> AvailableIs(c, TRUE)
            /\ (result[c] \in {FaultResult(m) : m \in FaultMessages}) <=> Faulted(c)

C5_Witness ==
    \E c \in Calls, d \in Calls :
        /\ pc[c] = "done" /\ result[c] = FaultResult(NoServerMessage)
        /\ pc[d] = "done" /\ result[d] = Plain(FALSE)

\* C6: a completed call whose command was available returned {success: r}
\* with r the value the probe's promise resolved to and no error; so an
\* unsuccessful result with an error comes from a call whose command was
\* not found available.
C6_ProbeResultReturned ==
    \A c \in Calls :
        /\ (pc[c] = "done" /\ AvailableIs(c, TRUE)) =>
               /\ outcome[c] = "returned"
               /\ probeP[c].state = "fulfilled"
               /\ result[c].success = probeP[c].value
               /\ ~result[c].hasError
        /\ (pc[c] = "done" /\ ~result[c].success /\ result[c].hasError) =>
               ~AvailableIs(c, TRUE)

C6_Witness ==
    \E c \in Calls, d \in Calls :
        /\ pc[c] = "done" /\ AvailableIs(c, TRUE)
        /\ events[c] = <<"timeout">> /\ result[c] = Plain(FALSE)
        /\ pc[d] = "done" /\ AvailableIs(d, TRUE)
        /\ events[d] = <<"connect">> /\ result[d] = Plain(TRUE)

\* C7: the promise of a probe is never rejected; it resolves to true only
\* when connect was the first socket event, and a probe that faulted before
\* or in socket.connect has resolved to false when the executor returns.
C7_ProbeNeverRejects ==
    \A c \in Calls :
        /\ probeP[c].state # "rejected"
        /\ probeP[c].state = "fulfilled" => probeP[c].value \in BOOLEAN
        /\ (probeP[c].state = "fulfilled" /\ probeP[c].value) =>
               (events[c] # <<>> /\ events[c][1] = "connect")
        /\ (ProbeEntered(c) /\ ~ConnectStarted(c)) =>
               (probeP[c].state = "fulfilled" /\ ~probeP[c].value)

C7_Witness ==
    \E c \in Calls :
        /\ ProbeEntered(c)
        /\ sock[c] = "created"
        /\ connectArg[c].n > MaxPort
        /\ probeP[c].state = "fulfilled" /\ ~probeP[c].value

\* C8: the promise of an availability check is never rejected, and once the
\* resolver process has ended it is resolved to true exactly when the exit
\* code was zero.
C8_AvailabilityNeverRejects ==
    \A c \in Calls :
        /\ availP[c].state # "rejected"
        /\ child[c] \in Exits => AvailableIs(c, child[c] = "exit0")

\* s is a decimal numeral: one or more digits
IsNumeral(s) == s # <<>> /\ \A i \in 1..Len(s) : IsDigit(s[i])

\* the environment of definition s holds an MCP_PORT whose text starts, after
\* optional blanks and a sign, with digits that do not amount to zero
UsableEnvPort(s) ==
    /\ s.env.t = "object"
    /\ s.env.MCP_PORT.t # "undefined"
    /\ ParseInt(s.env.MCP_PORT.v) # NaN
    /\ ParseInt(s.env.MCP_PORT.v).n # 0

\* C9: a probe of a definition whose env.MCP_PORT parses to a non-zero
\* integer p always reaches socket.connect, and hands it p, whatever args
\* holds.
C9_EnvPortTakesPrecedence ==
    \A c \in Calls :
        (ProbeEntered(c) /\ UsableEnvPort(server[c])) =>
            /\ sock[c] # "none"
            /\ connectArg[c] = Num(ParseInt(server[c].env.MCP_PORT.v).n)

C9_Witness ==
    \E c \in Calls :
        /\ ProbeEntered(c)
        /\ server[c].env = Env(Str(<<"9", "9", "9", "9">>))
        /\ server[c].args = Args(<<Str(PortEq \o <<"8", "1">>), NumVal(<<"8", "3">>)>>)
        /\ connectArg[c] = Num(9999)

\* element i of args bears a port: it contains --port=, or it is --port and
\* has a successor
PortBearing(elems, i) ==
    \/ Includes(elems[i].v, PortEq)
    \/ (elems[i].v = PortFlag /\ i < Len(elems))

\* i is the first port-bearing position of args
FirstPortBearing(elems, i) ==
    /\ i \in 1..Len(elems)
    /\ PortBearing(elems, i)
    /\ \A j \in 1..(i - 1) : ~PortBearing(elems, j)

\* the characters of token tok after its first Len(PortEq) ones
AfterPortEq(tok) == SubSeq(tok, Len(PortEq) + 1, Len(tok))

\* element i of args is --port=<n> for a numeral n other than zero
EqForm(elems, i) ==
    /\ Len(elems[i].v) > Len(PortEq)
    /\ SubSeq(elems[i].v, 1, Len(PortEq)) = PortEq
    /\ IsNumeral(AfterPortEq(elems[i].v))
    /\ DigitsValue(AfterPortEq(elems[i].v)) # 0

\* element i of args is --port and element i + 1 is a numeral other than zero
FlagForm(elems, i) ==
    /\ elems[i].v = PortFlag
    /\ i < Len(elems)
    /\ IsNumeral(elems[i + 1].v)
    /\ DigitsValue(elems[i + 1].v) # 0

\* C10: in a probe that reaches socket.connect for a definition with no
\* usable MCP_PORT: when the first port-bearing element of args is
\* --port=<n>, or is --port followed by <n>, for a numeral n other than
\* zero, the port handed to socket.connect is n; when args is no array or
\* holds no port-bearing element, it is 8080.
C10_PortFromArgs ==
    \A c \in Calls :
        (sock[c] # "none" /\ ~UsableEnvPort(server[c])) =>
            LET elems == server[c].args.elems
            IN  /\ \A i \in 1..Len(elems) :
                       /\ (FirstPortBearing(elems, i) /\ EqForm(elems, i)) =>
                              connectArg[c] = Num(DigitsValue(AfterPortEq(elems[i].v)))
                       /\ (FirstPortBearing(elems, i) /\ FlagForm(elems, i)) =>
                              connectArg[c] = Num(DigitsValue(elems[i + 1].v))
                /\ (\A i \in 1..Len(elems) : ~PortBearing(elems, i)) =>
                       connectArg[c] = Num(DefaultPort)

C10_Witness ==
    \E c \in Calls :
        /\ sock[c] # "none"
        /\ server[c].env = Env(Str(<<"a", "b", "c">>))
        /\ server[c].args = Args(<<Str(<<"-", "v">>), Str(PortEq \o <<"8", "1">>)>>)
        /\ connectArg[c] = Num(81)

\* every element of args up to position i is a string
StringsUpTo(elems, i) == \A j \in 1..i : elems[j].t = "string"

\* C11: in a probe of a definition with no usable MCP_PORT whose args are
\* strings and end with --port, the scan raises nothing (socket.connect is
\* reached and the promise is not rejected), and when no element before the
\* last bears a port the port handed to socket.connect is 8080.
C11_TrailingPortFlag ==
    \A c \in Calls :
        LET elems == server[c].args.elems
        IN  ( /\ ProbeEntered(c)
              /\ ~UsableEnvPort(server[c])
              /\ server[c].args.isArray
              /\ elems # <<>>
              /\ StringsUpTo(elems, Len(elems))
              /\ elems[Len(elems)].v = PortFlag ) =>
                /\ sock[c] # "none"
                /\ probeP[c].state # "rejected"
                /\ (\A i \in 1..Len(elems) : ~PortBearing(elems, i)) =>
                       connectArg[c] = Num(DefaultPort)

C11_Witness ==
    \E c \in Calls :
        /\ server[c].args = Args(<<Str(<<"-", "v">>), Str(PortFlag)>>)
        /\ server[c].env = NoEnv
        /\ sock[c] # "none"
        /\ connectArg[c] = Num(DefaultPort)

\* a number is a valid positive port
ValidPort(num) == ~num.nan /\ num.n >= 1 /\ num.n <= MaxPort

\* what the args scan of definition s gives when it is run on its own
ArgsRule(s) ==
    IF s.args.isArray THEN ScanArgs(s.args.elems, 1, Num(0)).port ELSE Num(0)

\* what env.MCP_PORT of definition s parses to, NaN when there is none
EnvRule(s) ==
    IF s.env.t = "object" /\ s.env.MCP_PORT.t # "undefined"
    THEN ParseInt(s.env.MCP_PORT.v)
    ELSE NaN

\* C12: the port handed to socket.connect is a valid positive integer: the
\* value of env.MCP_PORT when that is one, else the value of the args scan
\* when that is one, else 8080.
C12_ValidPositivePort ==
    \A c \in Calls :
        sock[c] # "none" =>
            /\ ValidPort(connectArg[c])
            /\ connectArg[c] =
                   IF ValidPort(EnvRule(server[c])) THEN EnvRule(server[c])
                   ELSE IF ValidPort(ArgsRule(server[c])) THEN ArgsRule(server[c])
                   ELSE Num(DefaultPort)

\* the value the scan parses at port-bearing position i
ParsedAt(elems, i) ==
    IF Includes(elems[i].v, PortEq)
    THEN ParseInt(SplitSecond(elems[i].v, "="))
    ELSE ParseInt(elems[i + 1].v)

\* C15: in a probe of a definition with no usable MCP_PORT, with i the first
\* port-bearing position of args and strings up to i: socket.connect is
\* reached whatever follows position i, with the value parsed at position i
\* when that is a non-zero integer and with 8080 otherwise, also when a
\* later element carries a valid port specifier.
C15_FirstPortBearingOnly ==
    \A c \in Calls :
        LET elems == server[c].args.elems
        IN  \A i \in 1..Len(elems) :
                ( /\ ProbeEntered(c)
                  /\ ~UsableEnvPort(server[c])
                  /\ FirstPortBearing(elems, i)
                  /\ StringsUpTo(elems, i) ) =>
                    /\ sock[c] # "none"
                    /\ connectArg[c] =
                           IF Falsy(ParsedAt(elems, i)) THEN Num(DefaultPort)
                           ELSE ParsedAt(elems, i)

C15_Witness ==
    \E c \in Calls :
        /\ server[c].args = Args(<<Str(PortEq \o <<"x">>), Str(PortEq \o <<"8", "1">>)>>)
        /\ server[c].env = NoEnv
        /\ sock[c] # "none"
        /\ connectArg[c] = Num(DefaultPort)

\* C13: every probe that was entered is eventually resolved, and every call
\* that was invoked eventually returns a result.
C13_ChecksComplete ==
    /\ ProbeEntered(OneCall) ~> (probeP[OneCall].state = "fulfilled")
    /\ (pc[OneCall] # "idle") ~> (pc[OneCall] = "done" /\ outcome[OneCall] = "returned")

C13_Witness ==
    \E c \in Calls :
        /\ sock[c] = "destroyed"
        /\ events[c] = <<"timeout">>
        /\ probeP[c].state = "fulfilled" /\ ~probeP[c].value
        /\ pc[c] = "done"
        /\ result[c] = Plain(FALSE)

\* the result a call returns when it runs alone, from its own server value,
\* its own availability outcome and its own socket events
AloneResult(c) ==
    IF server[c].t # "object" THEN FaultResult(NoServerMessage)
    ELSE IF availP[c].state = "rejected" THEN FaultResult(availP[c].reason)
    ELSE IF ~availP[c].value THEN Unavailable
    ELSE IF ConnectStarted(c) THEN Plain(events[c][1] = "connect")
    ELSE Plain(FALSE)

\* the part of the state that belongs to call c
Own(c) ==
    <<pc[c], server[c], availP[c], child[c], probeP[c], sock[c],
      connectArg[c], events[c], outcome[c], result[c]>>

\* C14: with two calls interleaved in every way, a completed call returned
\* the result it returns alone on its own definition and outcomes, and every
\* step changes the state of one call only.
C14_CallsDoNotInterfere ==
    /\ [](\A c \in Calls : pc[c] = "done" =>
              (outcome[c] = "returned" /\ result[c] = AloneResult(c)))
    /\ [][\E c \in Calls : \A d \in Calls \ {c} : Own(d)' = Own(d)]_vars

C14_Witness ==
    /\ pc["c1"] = "done" /\ pc["c2"] = "done"
    /\ server["c1"] # server["c2"]
    /\ events["c1"] = <<"connect">> /\ result["c1"] = Plain(TRUE)
    /\ events["c2"] = <<"error">> /\ result["c2"] = Plain(FALSE)

\* C16: once a save-mcp-config call has returned true, the configuration
\* file holds the data of some save call; in particular it does not hold the
\* default that get-mcp-config writes.
C16_SavedConfigNeverLost ==
    (\E s \in Saves : saveOut[s] = Returned("true")) =>
        /\ file \in {saveArg[s] : s \in {x \in Saves : savePc[x] # "idle"}}
        /\ file # DefaultWritten

=============================================================================
